---- MODULE Spec2Model ----
(***************************************************************************)
(* Job tracker: the /api/jobs and /api/jobs/[id] route handlers over the   *)
(* Job table, and the state controller of the kanban page that calls them. *)
(*                                                                         *)
(* Strings are sequences of one-character strings, so that trim() and      *)
(* toUpperCase() are computed character by character.  A JSON value is a   *)
(* record [t, s]: t is its JavaScript type and s its characters (empty for *)
(* undefined and null).  A field that a request body does not carry reads  *)
(* as undefined, as it does in JavaScript.                                 *)
(***************************************************************************)
EXTENDS Integers, Sequences, FiniteSets, TLC

\* ------------------------------------------------------------------ bounds
\* most requests one behaviour of the service sends
MaxRequests == 2
\* most records ever created (identifiers are never reused)
MaxJobs == 2
\* most fetches one behaviour of the page issues
MaxCalls == 3
\* most changes one behaviour makes to the query controls
MaxChanges == 2

\* ----------------------------------------------------------------- strings
Whitespace == {" "}

Lower == <<"a", "b", "c", "d", "e", "f", "g", "h", "i", "j", "k", "l", "m",
           "n", "o", "p", "q", "r", "s", "t", "u", "v", "w", "x", "y", "z">>
Upper == <<"A", "B", "C", "D", "E", "F", "G", "H", "I", "J", "K", "L", "M",
           "N", "O", "P", "Q", "R", "S", "T", "U", "V", "W", "X", "Y", "Z">>

RECURSIVE trimStart(_)
trimStart(s) ==
    IF s # <<>> /\ Head(s) \in Whitespace THEN trimStart(Tail(s)) ELSE s

RECURSIVE trimEnd(_)
trimEnd(s) ==
    IF s # <<>> /\ s[Len(s)] \in Whitespace
    THEN trimEnd(SubSeq(s, 1, Len(s) - 1))
    ELSE s

\* String.prototype.trim
trim(s) == trimEnd(trimStart(s))

upperChar(c) ==
    IF \E i \in 1..Len(Lower) : Lower[i] = c
    THEN Upper[CHOOSE i \in 1..Len(Lower) : Lower[i] = c]
    ELSE c

lowerChar(c) ==
    IF \E i \in 1..Len(Upper) : Upper[i] = c
    THEN Lower[CHOOSE i \in 1..Len(Upper) : Upper[i] = c]
    ELSE c

\* String.prototype.toUpperCase
toUpperCase(s) == [i \in 1..Len(s) |-> upperChar(s[i])]

toLowerCase(s) == [i \in 1..Len(s) |-> lowerChar(s[i])]

\* ------------------------------------------------------------- JSON values
Undefined == [t |-> "undefined", s |-> <<>>]
Null == [t |-> "null", s |-> <<>>]
Str(s) == [t |-> "string", s |-> s]
DateOf(s) == [t |-> "date", s |-> s]
Num(n) == [t |-> "number", s |-> n]

\* body.f: a field the object does not carry reads as undefined
Field(body, f) == IF f \in DOMAIN body THEN body[f] ELSE Undefined

\* x ?? d
Coalesce(x, d) == IF x.t \in {"undefined", "null"} THEN d ELSE x

\* String(x) of a string, and of the "" that ?? substitutes
String(x) == x.s

\* the condition of `x ? a : b`
Truthy(x) == x.t = "string" /\ x.s # <<>>

\* ------------------------------------------------------------------ status
SAVED == <<"S", "A", "V", "E", "D">>
APPLIED == <<"A", "P", "P", "L", "I", "E", "D">>
INTERVIEW == <<"I", "N", "T", "E", "R", "V", "I", "E", "W">>
OFFER == <<"O", "F", "F", "E", "R">>
REJECTED == <<"R", "E", "J", "E", "C", "T", "E", "D">>

\* Object.values(JobStatus)
JobStatus == {SAVED, APPLIED, INTERVIEW, OFFER, REJECTED}

ALL == <<"A", "L", "L">>

\* ------------------------------------------------------------ the Job table
TextFields == {"location", "url", "salary", "notes", "nextAction"}
BodyFields == {"company", "role", "status", "nextActionAt"} \cup TextFields

\* strings that `new Date(s)` parses; every other string gives Invalid Date
ValidDateStrings == {<<"2", "0", "2", "6">>}

\* new Date(x)
NewDate(x) == IF x.s \in ValidDateStrings THEN DateOf(x.s) ELSE DateOf(<<>>)

InvalidDate(d) == d.t = "date" /\ d.s = <<>>

\* the columns the schema fills in on insert: a new id, createdAt = now()
\* and updatedAt, both taken from the one clock reading of the insert
SchemaDefaults(id, now) == [id |-> id, createdAt |-> now, updatedAt |-> now]

\* @updatedAt: every update writes the current time into updatedAt
UpdatedAtRefresh(row, now) == [row EXCEPT !.updatedAt = now]

\* prisma.job.create throws when the store fails or a DateTime is invalid
createThrows(data, storeFails) == storeFails \/ InvalidDate(data.nextActionAt)

\* prisma.job.create({ data })
prismaJobCreate(st, data, id, now) ==
    LET d == SchemaDefaults(id, now)
        row == [id |-> d.id,
                company |-> data.company,
                role |-> data.role,
                status |-> data.status,
                location |-> data.location,
                url |-> data.url,
                salary |-> data.salary,
                notes |-> data.notes,
                nextAction |-> data.nextAction,
                nextActionAt |-> data.nextActionAt,
                createdAt |-> d.createdAt,
                updatedAt |-> d.updatedAt]
    IN  [i \in DOMAIN st \cup {id} |-> IF i = id THEN row ELSE st[i]]

\* prisma.job.update throws when no record has the id (P2025), when the
\* store fails or when a DateTime is invalid
updateThrows(st, id, data, storeFails) ==
    \/ storeFails
    \/ id \notin DOMAIN st
    \/ InvalidDate(data.nextActionAt)

Set(data, f, old) == IF data[f].t = "undefined" THEN old ELSE data[f]

\* prisma.job.update({ where: { id }, data }): the fields of data that are
\* set replace the stored ones, the others stay
prismaJobUpdate(st, id, data, now) ==
    LET old == st[id]
        row == [id |-> old.id,
                company |-> IF data.company.t = "undefined"
                            THEN old.company ELSE data.company.s,
                role |-> IF data.role.t = "undefined"
                         THEN old.role ELSE data.role.s,
                status |-> IF data.status.t = "undefined"
                           THEN old.status ELSE data.status.s,
                location |-> Set(data, "location", old.location),
                url |-> Set(data, "url", old.url),
                salary |-> Set(data, "salary", old.salary),
                notes |-> Set(data, "notes", old.notes),
                nextAction |-> Set(data, "nextAction", old.nextAction),
                nextActionAt |-> Set(data, "nextActionAt", old.nextActionAt),
                createdAt |-> IF Field(data, "createdAt").t = "undefined"
                              THEN old.createdAt ELSE data.createdAt.s,
                updatedAt |-> old.updatedAt]
    IN  [st EXCEPT ![id] =
            IF Field(data, "updatedAt").t = "undefined"
            THEN UpdatedAtRefresh(row, now)
            ELSE [row EXCEPT !.updatedAt = data.updatedAt.s]]

\* prisma.job.delete throws when no record has the id, or the store fails
deleteThrows(st, id, storeFails) == storeFails \/ id \notin DOMAIN st

\* prisma.job.delete({ where: { id } })
prismaJobDelete(st, id) == [i \in DOMAIN st \ {id} |-> st[i]]

\* ------------------------------------------------- /api/jobs route handlers
\* normalizeStatus without its toUpperCase()
normalizeStatusNoUpper(input) ==
    LET v == trim(String(Coalesce(input, Str(<<>>))))
    IN  IF v = <<>> \/ v = ALL THEN Null
        ELSE IF v \in JobStatus THEN Str(v) ELSE Null

\* normalizeStatus of the /api/jobs route
normalizeStatus(input) ==
    LET v == toUpperCase(trim(String(Coalesce(input, Str(<<>>)))))
    IN  IF v = <<>> \/ v = ALL THEN Null
        ELSE IF v \in JobStatus THEN Str(v) ELSE Null

\* body.f ? String(body.f).trim() : null
textOrNull(x) == IF Truthy(x) THEN Str(trim(String(x))) ELSE Null

\* body.nextActionAt ? new Date(body.nextActionAt) : null
dateOrNull(x) == IF Truthy(x) THEN NewDate(x) ELSE Null

NoJob == Null

Response(code, st, job) == [code |-> code, store |-> st, job |-> job]

\* the check with && for ||
postRejectsBoth(company, role) == company = <<>> /\ role = <<>>

\* if (!company || !role)
postRejects(company, role) == company = <<>> \/ role = <<>>

\* POST /api/jobs
POST(body, st, id, now, storeFails) ==
    LET company == trim(String(Coalesce(body.company, Str(<<>>))))
        role == trim(String(Coalesce(body.role, Str(<<>>))))
        status == Coalesce(normalizeStatus(body.status), Str(SAVED))
        data == [company |-> company,
                 role |-> role,
                 status |-> status.s,
                 location |-> textOrNull(body.location),
                 url |-> textOrNull(body.url),
                 salary |-> textOrNull(body.salary),
                 notes |-> textOrNull(body.notes),
                 nextAction |-> textOrNull(body.nextAction),
                 nextActionAt |-> dateOrNull(body.nextActionAt)]
    IN  IF postRejects(company, role)
        THEN Response(400, st, NoJob)
        ELSE IF createThrows(data, storeFails)
             THEN Response(500, st, NoJob)
             ELSE LET st2 == prismaJobCreate(st, data, id, now)
                  IN  Response(201, st2, st2[id])

\* ------------------------------------------- /api/jobs/[id] route handlers
\* normalizeStatus of the /api/jobs/[id] route
normalizeStatusById(input) ==
    LET v == toUpperCase(trim(String(Coalesce(input, Str(<<>>)))))
    IN  IF v \in JobStatus THEN Str(v) ELSE Null

\* patchName without its trim()
patchNameUntrimmed(x) ==
    IF x.t # "undefined"
    THEN Str(String(Coalesce(x, Str(<<>>))))
    ELSE Undefined

\* if (body.f !== undefined) data.f = String(body.f ?? "").trim()
patchName(x) ==
    IF x.t # "undefined"
    THEN Str(trim(String(Coalesce(x, Str(<<>>)))))
    ELSE Undefined

\* patchStatus without its `if (st)` test: the trimmed, upper-cased text is
\* stored whatever it is
patchStatusUnchecked(x) ==
    IF x.t # "undefined"
    THEN Str(toUpperCase(trim(String(Coalesce(x, Str(<<>>))))))
    ELSE Undefined

\* if (body.status !== undefined) { const st = ...; if (st) data.status = st }
patchStatus(x) ==
    IF x.t # "undefined"
    THEN LET st == normalizeStatusById(x)
         IN  IF st.t # "null" THEN st ELSE Undefined
    ELSE Undefined

\* patchText without its `!== undefined` test
patchTextAlways(x) == textOrNull(x)

\* if (body.f !== undefined) data.f = body.f ? String(body.f).trim() : null
patchText(x) == IF x.t # "undefined" THEN textOrNull(x) ELSE Undefined

patchDate(x) == IF x.t # "undefined" THEN dateOrNull(x) ELSE Undefined

\* patchData that also copies createdAt and updatedAt from the body
patchDataWithTimestamps(body) ==
    [company |-> patchName(body.company),
     role |-> patchName(body.role),
     status |-> patchStatus(body.status),
     location |-> patchText(body.location),
     url |-> patchText(body.url),
     salary |-> patchText(body.salary),
     notes |-> patchText(body.notes),
     nextAction |-> patchText(body.nextAction),
     nextActionAt |-> patchDate(body.nextActionAt),
     createdAt |-> Field(body, "createdAt"),
     updatedAt |-> Field(body, "updatedAt")]

\* the `data` object PATCH builds from the body
patchData(body) ==
    [company |-> patchName(body.company),
     role |-> patchName(body.role),
     status |-> patchStatus(body.status),
     location |-> patchText(body.location),
     url |-> patchText(body.url),
     salary |-> patchText(body.salary),
     notes |-> patchText(body.notes),
     nextAction |-> patchText(body.nextAction),
     nextActionAt |-> patchDate(body.nextActionAt)]

\* the checks without the one of role
patchRejectsCompanyOnly(data) ==
    data.company.t # "undefined" /\ data.company.s = <<>>

\* if (data.company !== undefined && !data.company) ...
\* if (data.role !== undefined && !data.role) ...
patchRejects(data) ==
    \/ data.company.t # "undefined" /\ data.company.s = <<>>
    \/ data.role.t # "undefined" /\ data.role.s = <<>>

\* PATCH /api/jobs/[id]
PATCH(id, body, st, now, storeFails) ==
    LET data == patchData(body)
    IN  IF patchRejects(data)
        THEN Response(400, st, NoJob)
        ELSE IF updateThrows(st, id, data, storeFails)
        THEN Response(500, st, NoJob)
        ELSE LET st2 == prismaJobUpdate(st, id, data, now)
             IN  Response(200, st2, st2[id])

\* DELETE that answers without the delete call
DELETEKeepsRow(id, st, storeFails) ==
    IF deleteThrows(st, id, storeFails)
    THEN Response(500, st, NoJob)
    ELSE Response(200, st, NoJob)

\* DELETE /api/jobs/[id]
DELETE(id, st, storeFails) ==
    IF deleteThrows(st, id, storeFails)
    THEN Response(500, st, NoJob)
    ELSE Response(200, prismaJobDelete(st, id), NoJob)

\* ------------------------------------------------------- GET /api/jobs
updated_desc == <<"u", "p", "d", "a", "t", "e", "d", "_", "d", "e", "s", "c">>
updated_asc == <<"u", "p", "d", "a", "t", "e", "d", "_", "a", "s", "c">>
created_desc == <<"c", "r", "e", "a", "t", "e", "d", "_", "d", "e", "s", "c">>
created_asc == <<"c", "r", "e", "a", "t", "e", "d", "_", "a", "s", "c">>
company_asc == <<"c", "o", "m", "p", "a", "n", "y", "_", "a", "s", "c">>
company_desc == <<"c", "o", "m", "p", "a", "n", "y", "_", "d", "e", "s", "c">>

\* normalizeSort falling back to "updated_asc"
normalizeSortFallsBackAsc(input) ==
    LET v == trim(String(Coalesce(input, Str(<<>>))))
        allowed == {updated_desc, updated_asc, created_desc, created_asc,
                    company_asc, company_desc}
    IN  IF v \in allowed THEN v ELSE updated_asc

\* normalizeSort
normalizeSort(input) ==
    LET v == trim(String(Coalesce(input, Str(<<>>))))
        allowed == {updated_desc, updated_asc, created_desc, created_asc,
                    company_asc, company_desc}
    IN  IF v \in allowed THEN v ELSE updated_desc

\* { contains: q, mode: "insensitive" } on a nullable text column
containsInsensitive(field, q) ==
    /\ field.t = "string"
    /\ LET h == toLowerCase(field.s)
           n == toLowerCase(q)
       IN  \E i \in 0..(Len(h) - Len(n)) : SubSeq(h, i + 1, i + Len(n)) = n

\* where with the status filter dropped when q is given
whereStatusOrText(row, status, q) ==
    /\ (status.t # "null" /\ q = <<>>) => row.status = status.s
    /\ q # <<>> =>
          \/ containsInsensitive(Str(row.company), q)
          \/ containsInsensitive(Str(row.role), q)
          \/ containsInsensitive(row.notes, q)
          \/ containsInsensitive(row.nextAction, q)

\* where with location among the searched columns
whereWithLocation(row, status, q) ==
    /\ status.t # "null" => row.status = status.s
    /\ q # <<>> =>
          \/ containsInsensitive(Str(row.company), q)
          \/ containsInsensitive(Str(row.role), q)
          \/ containsInsensitive(row.notes, q)
          \/ containsInsensitive(row.nextAction, q)
          \/ containsInsensitive(row.location, q)

\* the `where` of GET: status filter and the OR over four text columns
where(row, status, q) ==
    /\ status.t # "null" => row.status = status.s
    /\ q # <<>> =>
          \/ containsInsensitive(Str(row.company), q)
          \/ containsInsensitive(Str(row.role), q)
          \/ containsInsensitive(row.notes, q)
          \/ containsInsensitive(row.nextAction, q)

\* the store's ordering of text: by character code, shorter prefix first
Ascii == <<" ">> \o Upper \o <<"_">> \o Lower
charCode(c) == CHOOSE i \in 1..Len(Ascii) : Ascii[i] = c

RECURSIVE textLeq(_, _)
textLeq(a, b) ==
    IF a = <<>> THEN TRUE
    ELSE IF b = <<>> THEN FALSE
    ELSE IF Head(a) = Head(b) THEN textLeq(Tail(a), Tail(b))
    ELSE charCode(Head(a)) < charCode(Head(b))

\* orderBy with company always ascending
orderByCompanyAsc(sort, a, b) ==
    IF sort = updated_asc THEN a.updatedAt <= b.updatedAt
    ELSE IF sort = created_desc THEN a.createdAt >= b.createdAt
    ELSE IF sort = created_asc THEN a.createdAt <= b.createdAt
    ELSE IF sort = company_asc THEN textLeq(a.company, b.company)
    ELSE IF sort = company_desc THEN textLeq(a.company, b.company)
    ELSE a.updatedAt >= b.updatedAt

\* the `orderBy` of GET: does row a come no later than row b
orderBy(sort, a, b) ==
    IF sort = updated_asc THEN a.updatedAt <= b.updatedAt
    ELSE IF sort = created_desc THEN a.createdAt >= b.createdAt
    ELSE IF sort = created_asc THEN a.createdAt <= b.createdAt
    ELSE IF sort = company_asc THEN textLeq(a.company, b.company)
    ELSE IF sort = company_desc THEN textLeq(b.company, a.company)
    ELSE a.updatedAt >= b.updatedAt

\* prisma.job.findMany({ where, orderBy }): every matching row, in an order
\* that respects orderBy; rows with equal keys come in any order
findMany(st, status, q, sort) ==
    LET ids == {i \in DOMAIN st : where(st[i], status, q)}
        n == Cardinality(ids)
    IN  {[k \in 1..n |-> st[p[k]]] :
            p \in {f \in [1..n -> ids] :
                     /\ \A x, y \in 1..n : x # y => f[x] # f[y]
                     /\ \A x, y \in 1..n :
                          x < y => orderBy(sort, st[f[x]], st[f[y]])}}

\* GET /api/jobs: the lists it may answer with
GET(params, st) ==
    LET q == trim(String(Coalesce(params.q, Str(<<>>))))
        status == normalizeStatus(params.status)
        sort == normalizeSort(params.sort)
    IN  findMany(st, status, q, sort)

\* ------------------------------------------------------------------- state
VARIABLES
    store,      \* the Job table: id -> row
    nextId,     \* the next identifier the store hands out
    clock,      \* the clock reading of the last write; it advances from write to write
    requests,   \* requests the service has answered
    last,       \* the request being answered, its answer, the table before it
    deleted,    \* the ids whose DELETE was answered with success
    mounted,    \* the page's effects have run
    jobs,       \* the page's job list
    loading,    \* the page's loading flag
    busy,       \* the page's busy flag
    errorMsg,   \* the page's error banner
    q,          \* query controls: search text,
    filterStatus,   \* status filter,
    sort,       \* and sort key
    changes,    \* how many times the query controls have been changed
    dragId,     \* the id of the card being dragged, 0 for ""
    editJob,    \* the id of the job in the open edit dialog, 0 for none
    confirmJob, \* the id of the job in the open delete dialog, 0 for none
    toasts,     \* the notifications on screen, newest first
    timer,      \* the debounce timer of the reload effect is pending
    calls,      \* the page's fetches in flight
    callCount,  \* fetches the page has issued
    rejected    \* <<id, stage>>: moves the service refused, not yet overtaken

serverVars == <<store, nextId, clock>>
apiVars == <<requests, last, deleted>>
queryVars == <<q, filterStatus, sort, changes>>
modalVars == <<editJob, confirmJob>>
pageVars == <<mounted, jobs, loading, busy, errorMsg, q, filterStatus, sort,
              changes, dragId, editJob, confirmJob, toasts, timer, calls, callCount,
              rejected>>

vars == <<store, nextId, clock, requests, last, deleted, mounted, jobs,
          loading, busy, errorMsg, q, filterStatus, sort, changes, dragId, editJob,
          confirmJob, toasts, timer, calls, callCount, rejected>>

\* ------------------------------------------------- request bodies, inputs
EmptyBody == [f \in BodyFields |-> Undefined]

With(b, f, v) == [b EXCEPT ![f] = v]

NameInputs == {Null, Str(<<" ">>), Str(<<" ", "a", " ">>), Str(<<"B">>)}

StatusInputs == {Null, Str(<<>>), Str(<<"a", "p", "p", "l", "i", "e", "d">>),
                 Str(<<" ", "O", "F", "F", "E", "R", " ">>), Str(REJECTED),
                 Str(ALL), Str(<<"X">>)}

TextInputs == {Null, Str(<<>>), Str(<<" ">>), Str(<<" ", "x", " ">>)}

DateInputs == {Null, Str(<<"2", "0", "2", "6">>), Str(<<"x">>)}

Inputs(f) ==
    IF f \in {"company", "role"} THEN NameInputs
    ELSE IF f = "status" THEN StatusInputs
    ELSE IF f = "nextActionAt" THEN DateInputs
    ELSE TextInputs

Named(c, r) == With(With(EmptyBody, "company", c), "role", r)

\* a body that also carries id, createdAt and updatedAt
WithKeys(b) ==
    [f \in DOMAIN b \cup {"id", "createdAt", "updatedAt"} |->
        IF f \in DOMAIN b THEN b[f] ELSE Num(0)]

\* bodies of one field
OneField == {With(EmptyBody, f, v) : <<f, v>> \in
                UNION {{<<g, w>> : w \in Inputs(g)} : g \in BodyFields}}

\* POST bodies: every combination of company and role, and a valid pair
\* with one more field
PostBodies ==
    {Named(c, r) : c \in NameInputs \cup {Undefined},
                   r \in NameInputs \cup {Undefined}}
    \cup {[b EXCEPT !.company = Str(<<" ", "a", " ">>), !.role = Str(<<"B">>)] :
            b \in {o \in OneField : /\ o.company = Undefined
                                    /\ o.role = Undefined
                                    /\ \A f \in BodyFields : o[f] # Null}}

\* PATCH bodies: none or one field, and a company or role with a valid
\* status or notes beside it
PatchBodies ==
    {EmptyBody} \cup OneField
    \cup {With(With(EmptyBody, n, v), "status", Str(OFFER)) :
            n \in {"company", "role"}, v \in {Str(<<" ">>), Str(<<"B">>)}}
    \cup {With(With(EmptyBody, n, v), "notes", Str(<<"y">>)) :
            n \in {"company", "role"}, v \in {Null, Str(<<"B">>)}}
    \cup {With(With(EmptyBody, "status", Str(<<"X">>)), "notes", Str(<<"y">>))}
    \cup {WithKeys(With(EmptyBody, "salary", Str(<<"y">>)))}

NoParams == [q |-> Null, status |-> Null, sort |-> Null]

\* query strings of GET
QueryParams ==
    [q : {Null, Str(<<"a">>)},
     status : {Null, Str(OFFER), Str(<<"X">>)},
     sort : {Null, Str(company_asc), Str(<<"X">>)}]

\* the ids a request may name: every id handed out so far, and the next one
Ids == 1..nextId

EmptyStore == [i \in {} |-> NoJob]

NoLast == [op |-> "none", id |-> 0, body |-> EmptyBody, params |-> NoParams,
           storeFails |-> FALSE, code |-> 0, pre |-> EmptyStore,
           job |-> NoJob, jobs |-> <<>>, thrown |-> FALSE]

\* --------------------------------------------- the service taken by itself
\* a table that an earlier run of the service left behind: one row with
\* every column filled
SeedBody ==
    [company |-> Str(<<" ", "a", " ">>), role |-> Str(<<"B">>),
     status |-> Str(<<"a", "p", "p", "l", "i", "e", "d">>),
     location |-> Str(<<"x">>), url |-> Str(<<"x">>), salary |-> Str(<<"x">>),
     notes |-> Str(<<"x">>), nextAction |-> Str(<<"x">>),
     nextActionAt |-> Str(<<"2", "0", "2", "6">>)]

SeedStore == POST(SeedBody, EmptyStore, 1, 1, FALSE).store

NoError == <<>>

\* useState(...): the page before its effects run
InitPage ==
    /\ mounted = FALSE
    /\ jobs = <<>>
    /\ loading = TRUE
    /\ busy = FALSE
    /\ errorMsg = NoError
    /\ q = <<>>
    /\ filterStatus = ALL
    /\ sort = updated_desc
    /\ changes = 0
    /\ dragId = 0
    /\ editJob = 0
    /\ confirmJob = 0
    /\ toasts = <<>>
    /\ timer = FALSE
    /\ calls = {}
    /\ callCount = 0
    /\ rejected = {}

InitApi ==
    /\ InitPage
    /\ store \in {EmptyStore, SeedStore}
    /\ nextId = Cardinality(DOMAIN store) + 1
    /\ clock = Cardinality(DOMAIN store)
    /\ requests = 0
    /\ last = NoLast
    /\ deleted = {}

\* a Create request
ApiPOST(body, storeFails) ==
    /\ last.op = "none"
    /\ requests < MaxRequests
    /\ nextId <= MaxJobs
    /\ LET now == clock + 1
           r == POST(body, store, nextId, now, storeFails)
       IN  /\ store' = r.store
           /\ nextId' = IF r.code = 201 THEN nextId + 1 ELSE nextId
           /\ clock' = IF r.code = 201 THEN now ELSE clock
           /\ last' = [NoLast EXCEPT !.op = "POST", !.body = body,
                          !.storeFails = storeFails, !.code = r.code,
                          !.pre = store, !.job = r.job]
    /\ requests' = requests + 1
    /\ UNCHANGED <<deleted, pageVars>>

\* an Update request
ApiPATCH(id, body, storeFails) ==
    /\ last.op = "none"
    /\ requests < MaxRequests
    /\ LET now == clock + 1
           r == PATCH(id, body, store, now, storeFails)
       IN  /\ store' = r.store
           /\ clock' = IF r.code = 200 THEN now ELSE clock
           /\ last' = [NoLast EXCEPT !.op = "PATCH", !.id = id,
                          !.body = body, !.storeFails = storeFails,
                          !.code = r.code, !.pre = store, !.job = r.job]
    /\ requests' = requests + 1
    /\ UNCHANGED <<nextId, deleted, pageVars>>

\* a Delete request
ApiDELETE(id, storeFails) ==
    /\ last.op = "none"
    /\ requests < MaxRequests
    /\ LET r == DELETE(id, store, storeFails)
       IN  /\ store' = r.store
           /\ deleted' = IF r.code = 200 THEN deleted \cup {id} ELSE deleted
           /\ last' = [NoLast EXCEPT !.op = "DELETE", !.id = id,
                          !.storeFails = storeFails, !.code = r.code,
                          !.pre = store]
    /\ requests' = requests + 1
    /\ UNCHANGED <<nextId, clock, pageVars>>

\* a List request; GET has no try/catch: when findMany throws, the handler
\* throws and the 500 is the framework's
ApiGET(params, storeFails) ==
    /\ last.op = "none"
    /\ requests < MaxRequests
    /\ IF storeFails
       THEN last' = [NoLast EXCEPT !.op = "GET", !.params = params,
                        !.storeFails = TRUE, !.code = 500, !.pre = store,
                        !.thrown = TRUE]
       ELSE \E found \in GET(params, store) :
              last' = [NoLast EXCEPT !.op = "GET", !.params = params,
                          !.code = 200, !.pre = store, !.jobs = found]
    /\ requests' = requests + 1
    /\ UNCHANGED <<store, nextId, clock, deleted, pageVars>>

\* the answer has been sent: the exchange is over
ApiRespond ==
    /\ last.op # "none"
    /\ last' = NoLast
    /\ UNCHANGED <<store, nextId, clock, requests, deleted, pageVars>>

\* the bodies sent with an id: every body to a row of the table; to an id
\* the table does not hold, where the handler's answer depends on the body
\* only through its validation, one body of each kind
PatchBodiesFor(id) ==
    IF id \in DOMAIN store THEN PatchBodies
    ELSE {EmptyBody, With(EmptyBody, "company", Str(<<" ">>)),
          With(EmptyBody, "status", Str(OFFER))}

NextApi ==
    \/ \E body \in PostBodies, f \in BOOLEAN : ApiPOST(body, f)
    \/ \E id \in Ids, f \in BOOLEAN :
          \E body \in PatchBodiesFor(id) : ApiPATCH(id, body, f)
    \/ \E id \in Ids, f \in BOOLEAN : ApiDELETE(id, f)
    \/ \E params \in QueryParams, f \in BOOLEAN : ApiGET(params, f)
    \/ ApiRespond

SpecApi == InitApi /\ [][NextApi]_vars

\* ------------------------------------------------ the List request by itself
\* the table the page is opened on: two rows in different stages
BoardStore ==
    POST(Named(Str(<<"B">>), Str(<<" ", "a", " ">>)), SeedStore, 2, 2,
         FALSE).store

\* a table of three rows whose six orderings all differ: row 1 was updated
\* after row 3 was created; row 2 has the letter a in its location only
ListStore ==
    LET b2 == [Named(Str(<<"B">>), Str(<<"c">>)) EXCEPT
                  !.status = Str(OFFER), !.location = Str(<<"a">>)]
        b3 == [Named(Str(<<"b">>), Str(<<"c">>)) EXCEPT
                  !.status = Str(APPLIED), !.nextAction = Str(<<"A", "x">>)]
        t2 == POST(b2, SeedStore, 2, 2, FALSE).store
        t3 == POST(b3, t2, 3, 3, FALSE).store
    IN  PATCH(1, With(EmptyBody, "salary", Str(<<"y">>)), t3, 4, FALSE).store

ListTables == {EmptyStore, SeedStore, BoardStore, ListStore}

\* the reading of the last write of a table
Latest(st) ==
    IF DOMAIN st = {} THEN 0
    ELSE CHOOSE t \in {st[i].updatedAt : i \in DOMAIN st} :
            \A i \in DOMAIN st : st[i].updatedAt <= t

\* query strings of GET, every sort key among them
ListParams ==
    [q : {Null, Str(<<" ">>), Str(<<"a">>), Str(<<"A">>),
          Str(<<" ", "a", " ">>), Str(<<"x">>)},
     status : {Null, Str(SAVED), Str(APPLIED), Str(OFFER),
               Str(<<"o", "f", "f", "e", "r">>), Str(<<"X">>), Str(ALL)},
     sort : {Null, Str(updated_desc), Str(updated_asc), Str(created_desc),
             Str(created_asc), Str(company_asc), Str(company_desc),
             Str(<<" ">> \o updated_asc \o <<" ">>), Str(<<"X">>)}]

InitList ==
    /\ InitPage
    /\ store \in ListTables
    /\ nextId = Cardinality(DOMAIN store) + 1
    /\ clock = Latest(store)
    /\ requests = 0
    /\ last = NoLast
    /\ deleted = {}

NextList ==
    \/ \E params \in ListParams, f \in BOOLEAN : ApiGET(params, f)
    \/ ApiRespond

SpecList == InitList /\ [][NextList]_vars

\* ------------------------------------------------------- the kanban page
\* COLS
COLS == <<SAVED, APPLIED, INTERVIEW, OFFER, REJECTED>>

\* the most toasts kept: slice(0, 4)
MaxToasts == 4

LoadError == <<"F", "a", "i", "l", "e", "d">>

Toast(kind, title) == [kind |-> kind, title |-> title]

\* pushToast: the new toast goes first and the list is cut to four
pushToast(kind, title) ==
    toasts' = SubSeq(<<Toast(kind, title)>> \o toasts, 1,
                     IF Len(toasts) + 1 > MaxToasts THEN MaxToasts
                     ELSE Len(toasts) + 1)

\* dismissToast, and the timer that pushToast sets: the toast with that id
\* (ids are unique: the one at position i) leaves the list
dismissToast(i) ==
    /\ i \in DOMAIN toasts
    /\ toasts' = [k \in 1..(Len(toasts) - 1) |->
                    IF k < i THEN toasts[k] ELSE toasts[k + 1]]
    /\ UNCHANGED <<serverVars, apiVars, modalVars, mounted, jobs, loading, busy,
                   errorMsg, queryVars, dragId, timer, calls, callCount,
                   rejected>>

Call(n, fn) ==
    [n |-> n, fn |-> fn, phase |-> "sent", id |-> 0, status |-> <<>>,
     params |-> NoParams, prev |-> <<>>, ok |-> FALSE, jobs |-> <<>>,
     body |-> EmptyBody, awaited |-> FALSE]

\* the query string loadJobs builds from the query controls
loadParams ==
    [q |-> IF trim(q) # <<>> THEN Str(trim(q)) ELSE Null,
     status |-> IF filterStatus # ALL THEN Str(filterStatus) ELSE Null,
     sort |-> Str(sort)]

\* loadJobs up to its fetch; awaited: a handler waits for it with
\* `await loadJobs(); setBusy(false)`
loadJobsFrom(awaited) ==
    /\ callCount < MaxCalls
    /\ loading' = TRUE
    /\ errorMsg' = NoError
    /\ callCount' = callCount + 1
    /\ calls' = calls \cup
          {[Call(callCount + 1, "loadJobs") EXCEPT
              !.params = loadParams, !.awaited = awaited]}

loadJobs == loadJobsFrom(FALSE)

\* the two effects of the first render: loadJobs(), and the reload effect
\* arms its 250ms timer
Mount ==
    /\ ~mounted
    /\ mounted' = TRUE
    /\ timer' = TRUE
    /\ loadJobs
    /\ UNCHANGED <<serverVars, apiVars, modalVars, jobs, busy, queryVars, dragId,
                   toasts, rejected>>

\* the timer of the reload effect fires
TimerFires ==
    /\ timer
    /\ timer' = FALSE
    /\ loadJobs
    /\ UNCHANGED <<serverVars, apiVars, modalVars, mounted, jobs, busy, queryVars,
                   dragId, toasts, rejected>>

\* the Refresh button: onClick={loadJobs} disabled={busy}
Refresh ==
    /\ mounted
    /\ ~busy
    /\ loadJobs
    /\ UNCHANGED <<serverVars, apiVars, modalVars, mounted, jobs, busy, queryVars,
                   dragId, toasts, timer, rejected>>

Shows(list, id, stage) ==
    \E k \in DOMAIN list : list[k].id = id /\ list[k].status = stage

\* loadJobs that drops the answer of every reload but the newest
loadJobsDoneLatestOnly(c) ==
    /\ c \in calls
    /\ c.fn = "loadJobs"
    /\ c.phase = "answered"
    /\ calls' = calls \ {c}
    /\ IF c.n # callCount
       THEN UNCHANGED <<jobs, errorMsg>>
       ELSE IF ~c.ok
       THEN /\ jobs' = <<>>
            /\ errorMsg' = LoadError
       ELSE /\ jobs' = c.jobs
            /\ UNCHANGED errorMsg
    /\ loading' = FALSE
    /\ busy' = IF c.awaited THEN FALSE ELSE busy
    /\ rejected' = {r \in rejected : ~Shows(jobs', r[1], r[2])}
    /\ UNCHANGED <<serverVars, apiVars, modalVars, mounted, queryVars,
                   dragId, toasts, timer, callCount>>

\* the reload's answer: the list is replaced, or emptied on a failure
loadJobsDone(c) ==
    /\ c \in calls
    /\ c.fn = "loadJobs"
    /\ c.phase = "answered"
    /\ calls' = calls \ {c}
    /\ IF ~c.ok
       THEN /\ jobs' = <<>>
            /\ errorMsg' = LoadError
       ELSE /\ jobs' = c.jobs
            /\ UNCHANGED errorMsg
    /\ loading' = FALSE
    /\ busy' = IF c.awaited THEN FALSE ELSE busy
    /\ rejected' = {r \in rejected : ~Shows(jobs', r[1], r[2])}
    /\ UNCHANGED <<serverVars, apiVars, modalVars, mounted, queryVars,
                   dragId, toasts, timer, callCount>>

\* a card is rendered, and can be picked up, when the list is not loading
onDragStart(id) ==
    /\ mounted
    /\ ~loading
    /\ \E k \in DOMAIN jobs : jobs[k].id = id
    /\ dragId' = id
    /\ UNCHANGED <<serverVars, apiVars, modalVars, mounted, jobs, loading, busy,
                   errorMsg, queryVars, toasts, timer, calls,
                   callCount, rejected>>

\* onDragEnd={() => setDragId("")}
onDragEnd ==
    /\ dragId # 0
    /\ dragId' = 0
    /\ UNCHANGED <<serverVars, apiVars, modalVars, mounted, jobs, loading, busy,
                   errorMsg, queryVars, toasts, timer, calls,
                   callCount, rejected>>

\* moveJob without the optimistic setJobs
moveJobLater(id, newStatus) ==
    /\ callCount < MaxCalls
    /\ UNCHANGED jobs
    /\ callCount' = callCount + 1
    /\ calls' = calls \cup
          {[Call(callCount + 1, "moveJob") EXCEPT
              !.id = id, !.status = newStatus, !.prev = jobs]}

\* moveJob up to its fetch: the snapshot, the optimistic setJobs
moveJob(id, newStatus) ==
    /\ callCount < MaxCalls
    /\ jobs' = [k \in DOMAIN jobs |->
                  IF jobs[k].id = id
                  THEN [jobs[k] EXCEPT !.status = newStatus]
                  ELSE jobs[k]]
    /\ callCount' = callCount + 1
    /\ calls' = calls \cup
          {[Call(callCount + 1, "moveJob") EXCEPT
              !.id = id, !.status = newStatus, !.prev = jobs]}

\* onDrop (its setOverCol("") is the hover highlight of the column, which
\* only the column's class reads)
onDrop(col) ==
    /\ dragId # 0
    /\ moveJob(dragId, col)
    /\ dragId' = 0
    /\ rejected' = rejected \ {<<dragId, col>>}
    /\ UNCHANGED <<serverVars, apiVars, modalVars, mounted, loading, busy, errorMsg,
                   queryVars, toasts, timer>>

\* if (!res.ok) { setJobs(prev); pushToast("danger", ...); return; }
moveJobFailed(c) ==
    /\ jobs' = c.prev
    /\ pushToast("danger", "Failed")
    /\ rejected' = IF Shows(c.prev, c.id, c.status) THEN rejected
                   ELSE rejected \cup {<<c.id, c.status>>}

\* the move's answer
moveJobDone(c) ==
    /\ c \in calls
    /\ c.fn = "moveJob"
    /\ c.phase = "answered"
    /\ calls' = calls \ {c}
    /\ IF ~c.ok
       THEN moveJobFailed(c)
       ELSE /\ pushToast("success", "Updated")
            /\ UNCHANGED <<jobs, rejected>>
    /\ UNCHANGED <<serverVars, apiVars, modalVars, mounted, loading, busy, errorMsg,
                   queryVars, dragId, timer, callCount>>

\* ------------------------------------------------------------- statistics
\* Math.round(n / d) for n >= 0 and d > 0: halves go up
round(n, d) == (2 * n + d) \div (2 * d)

\* the rate taken over the applied and the interviewed together
interviewRateOfBoth(applied, interview) ==
    IF applied > 0 THEN round(interview * 100, applied + interview) ELSE 0

\* applied > 0 ? Math.round((interview / applied) * 100) : 0
interviewRate(applied, interview) ==
    IF applied > 0 THEN round(interview * 100, applied) ELSE 0

\* stats: useMemo over [jobs], so it is a function of the list on screen
stats(list) ==
    LET counts == [s \in JobStatus |->
                     Cardinality({k \in DOMAIN list : list[k].status = s})]
    IN  [counts |-> counts,
         total |-> Len(list),
         interviewRate |-> interviewRate(counts[APPLIED], counts[INTERVIEW])]

\* ------------------------------------------------------ query controls
\* what is typed into the search box, and picked in the two selects
QTexts == {<<>>, <<"a">>}
FilterValues == {ALL, OFFER}
SortValues == {updated_desc, company_asc}

\* a change of one query control: the reload effect runs again, its cleanup
\* clears the pending timer and a new 250ms timer is set
queryChanged ==
    /\ mounted
    /\ changes < MaxChanges
    /\ changes' = changes + 1
    /\ timer' = TRUE
    /\ UNCHANGED <<serverVars, apiVars, modalVars, mounted, jobs, loading,
                   busy, errorMsg, dragId, toasts, calls, callCount,
                   rejected>>

\* onChange of the search box
setQ(text) ==
    /\ text # q
    /\ q' = text
    /\ queryChanged
    /\ UNCHANGED <<filterStatus, sort>>

\* onChange of the Filter select
setFilterStatus(value) ==
    /\ value # filterStatus
    /\ filterStatus' = value
    /\ queryChanged
    /\ UNCHANGED <<q, sort>>

\* onChange of the Sort select
setSort(value) ==
    /\ value # sort
    /\ sort' = value
    /\ queryChanged
    /\ UNCHANGED <<q, filterStatus>>

\* ---------------------------------------------- add, edit, delete dialogs
Mutations == {"addJob", "saveEdit", "confirmDelete"}

\* what the add form holds when Add is pressed: company and role
AddForms == {<<c, r>> : c \in {<<" ">>, <<"B">>}, r \in {<<"c">>}}

\* addJob up to its fetch
addJob(company, role) ==
    LET c == trim(company)
        r == trim(role)
    IN  /\ mounted
        /\ ~busy
        /\ IF c = <<>> \/ r = <<>>
           THEN /\ pushToast("warning", "Missing info")
                /\ UNCHANGED <<busy, calls, callCount>>
           ELSE /\ callCount < MaxCalls
                /\ nextId <= MaxJobs
                /\ busy' = TRUE
                /\ callCount' = callCount + 1
                /\ calls' = calls \cup
                      {[Call(callCount + 1, "addJob") EXCEPT
                          !.params = loadParams,
                          !.body = [Named(Str(c), Str(r)) EXCEPT
                                       !.status = Str(APPLIED),
                                       !.notes = Null]]}
                /\ UNCHANGED toasts
        /\ UNCHANGED <<serverVars, apiVars, modalVars, mounted, jobs, loading,
                       errorMsg, queryVars, dragId, timer, rejected>>

\* a click on a card
openEdit(id) ==
    /\ mounted
    /\ ~loading
    /\ \E k \in DOMAIN jobs : jobs[k].id = id
    /\ editJob' = id
    /\ UNCHANGED <<serverVars, apiVars, confirmJob, mounted, jobs, loading,
                   busy, errorMsg, queryVars, dragId, toasts, timer, calls,
                   callCount, rejected>>

\* what EditForm's submit sends: every field, the names trimmed, the empty
\* texts as null
EditForms ==
    {[company |-> Str(c), role |-> Str(<<"B">>), status |-> Str(OFFER),
      location |-> Null, url |-> Null, salary |-> Null,
      notes |-> Str(<<"y">>), nextAction |-> Null, nextActionAt |-> Null] :
        c \in {<<>>, <<"a">>}}

\* saveEdit up to its fetch
saveEdit(updated) ==
    /\ editJob # 0
    /\ ~busy
    /\ callCount < MaxCalls
    /\ busy' = TRUE
    /\ callCount' = callCount + 1
    /\ calls' = calls \cup
          {[Call(callCount + 1, "saveEdit") EXCEPT
              !.id = editJob, !.body = updated,
              !.params = loadParams]}
    /\ UNCHANGED <<serverVars, apiVars, modalVars, mounted, jobs, loading,
                   errorMsg, queryVars, dragId, toasts, timer, rejected>>

\* askDelete: the Delete button of a card, disabled={busy}
askDelete(id) ==
    /\ mounted
    /\ ~loading
    /\ ~busy
    /\ \E k \in DOMAIN jobs : jobs[k].id = id
    /\ confirmJob' = id
    /\ UNCHANGED <<serverVars, apiVars, editJob, mounted, jobs, loading,
                   busy, errorMsg, queryVars, dragId, toasts, timer, calls,
                   callCount, rejected>>

\* confirmDelete up to its fetch
confirmDelete ==
    /\ confirmJob # 0
    /\ ~busy
    /\ callCount < MaxCalls
    /\ busy' = TRUE
    /\ callCount' = callCount + 1
    /\ calls' = calls \cup
          {[Call(callCount + 1, "confirmDelete") EXCEPT
              !.id = confirmJob, !.params = loadParams]}
    /\ UNCHANGED <<serverVars, apiVars, modalVars, mounted, jobs, loading,
                   errorMsg, queryVars, dragId, toasts, timer, rejected>>

\* the Cancel and close buttons of the two dialogs, disabled={busy}
closeDialog ==
    /\ ~busy
    /\ editJob # 0 \/ confirmJob # 0
    /\ editJob' = 0
    /\ confirmJob' = 0
    /\ UNCHANGED <<serverVars, apiVars, mounted, jobs, loading, busy,
                   errorMsg, queryVars, dragId, toasts, timer, calls,
                   callCount, rejected>>

SuccessTitle(fn) ==
    IF fn = "addJob" THEN "Added"
    ELSE IF fn = "saveEdit" THEN "Saved" ELSE "Deleted"

\* mutationDone that reloads after a failure as well
mutationDoneReloadsAlways(c) ==
    /\ c \in calls
    /\ c.fn \in Mutations
    /\ c.phase = "answered"
    /\ editJob' = IF c.ok /\ c.fn = "saveEdit" THEN 0 ELSE editJob
    /\ confirmJob' = IF c.ok /\ c.fn = "confirmDelete" THEN 0 ELSE confirmJob
    /\ IF c.ok THEN pushToast("success", SuccessTitle(c.fn))
       ELSE pushToast("danger", "Failed")
    /\ callCount < MaxCalls
    /\ loading' = TRUE
    /\ errorMsg' = NoError
    /\ callCount' = callCount + 1
    /\ calls' = (calls \ {c}) \cup
          {[Call(callCount + 1, "loadJobs") EXCEPT
              !.params = c.params, !.awaited = TRUE]}
    /\ UNCHANGED busy
    /\ UNCHANGED <<serverVars, apiVars, mounted, jobs, queryVars, dragId,
                   timer, rejected>>

\* mutationDone without the setBusy(false) of its failure branch
mutationDoneKeepsBusy(c) ==
    /\ c \in calls
    /\ c.fn \in Mutations
    /\ c.phase = "answered"
    /\ IF ~c.ok
       THEN /\ pushToast("danger", "Failed")
            /\ calls' = calls \ {c}
            /\ UNCHANGED <<modalVars, loading, errorMsg, callCount>>
       ELSE /\ editJob' = IF c.fn = "saveEdit" THEN 0 ELSE editJob
            /\ confirmJob' = IF c.fn = "confirmDelete" THEN 0 ELSE confirmJob
            /\ pushToast("success", SuccessTitle(c.fn))
            /\ callCount < MaxCalls
            /\ loading' = TRUE
            /\ errorMsg' = NoError
            /\ callCount' = callCount + 1
            /\ calls' = (calls \ {c}) \cup
                  {[Call(callCount + 1, "loadJobs") EXCEPT
                      !.params = c.params, !.awaited = TRUE]}
    /\ UNCHANGED busy
    /\ UNCHANGED <<serverVars, apiVars, mounted, jobs, queryVars, dragId,
                   timer, rejected>>

\* addJob, saveEdit, confirmDelete from their answer on:
\* if (!res.ok) { pushToast("danger", ...); setBusy(false); return; }
\* ... pushToast("success", ...); await loadJobs(); setBusy(false);
\* the loadJobs called is the one of the render in which the handler was
\* started, and reads that render's q, filterStatus and sort
mutationDone(c) ==
    /\ c \in calls
    /\ c.fn \in Mutations
    /\ c.phase = "answered"
    /\ IF ~c.ok
       THEN /\ pushToast("danger", "Failed")
            /\ busy' = FALSE
            /\ calls' = calls \ {c}
            /\ UNCHANGED <<modalVars, loading, errorMsg, callCount>>
       ELSE /\ editJob' = IF c.fn = "saveEdit" THEN 0 ELSE editJob
            /\ confirmJob' = IF c.fn = "confirmDelete" THEN 0 ELSE confirmJob
            /\ pushToast("success", SuccessTitle(c.fn))
            /\ callCount < MaxCalls
            /\ loading' = TRUE
            /\ errorMsg' = NoError
            /\ callCount' = callCount + 1
            /\ calls' = (calls \ {c}) \cup
                  {[Call(callCount + 1, "loadJobs") EXCEPT
                      !.params = c.params, !.awaited = TRUE]}
            /\ UNCHANGED busy
    /\ UNCHANGED <<serverVars, apiVars, mounted, jobs, queryVars, dragId,
                   timer, rejected>>

\* the fetch itself fails: it throws, no handler catches it, and the rest of
\* the async function never runs
fetchThrows(c) ==
    /\ c \in calls
    /\ c.phase = "sent"
    /\ calls' = calls \ {c}
    /\ UNCHANGED <<serverVars, apiVars, modalVars, mounted, jobs, loading,
                   busy, errorMsg, queryVars, dragId, toasts, timer,
                   callCount, rejected>>

\* what the service does with the request of a fetch other than the reload
Write(c, storeFails) ==
    IF c.fn = "addJob"
    THEN POST(c.body, store, nextId, clock + 1, storeFails)
    ELSE IF c.fn = "confirmDelete"
    THEN DELETE(c.id, store, storeFails)
    ELSE IF c.fn = "saveEdit"
    THEN PATCH(c.id, c.body, store, clock + 1, storeFails)
    ELSE PATCH(c.id, With(EmptyBody, "status", Str(c.status)), store,
               clock + 1, storeFails)

\* res.ok
Ok(code) == code >= 200 /\ code <= 299

\* the service answers a fetch of the page
Serve(c, storeFails) ==
    /\ c \in calls
    /\ c.phase = "sent"
    /\ IF c.fn = "loadJobs"
       THEN /\ IF storeFails
               THEN calls' = (calls \ {c}) \cup
                       {[c EXCEPT !.phase = "answered", !.ok = FALSE]}
               ELSE \E found \in GET(c.params, store) :
                      calls' = (calls \ {c}) \cup
                         {[c EXCEPT !.phase = "answered", !.ok = TRUE,
                                    !.jobs = found]}
            /\ UNCHANGED serverVars
       ELSE LET r == Write(c, storeFails)
            IN  /\ store' = r.store
                /\ clock' = IF r.code \in {200, 201} /\ c.fn # "confirmDelete"
                            THEN clock + 1 ELSE clock
                /\ nextId' = IF r.code = 201 THEN nextId + 1 ELSE nextId
                /\ calls' = (calls \ {c}) \cup
                      {[c EXCEPT !.phase = "answered", !.ok = Ok(r.code)]}
    /\ UNCHANGED <<apiVars, modalVars, mounted, jobs, loading, busy, errorMsg,
                   queryVars, dragId, toasts, timer, callCount, rejected>>

InitOn(table) ==
    /\ InitPage
    /\ store = table
    /\ nextId = Cardinality(DOMAIN store) + 1
    /\ clock = Cardinality(DOMAIN store)
    /\ requests = 0
    /\ last = NoLast
    /\ deleted = {}

Next ==
    \/ Mount
    \/ TimerFires
    \/ Refresh
    \/ \E c \in calls, f \in BOOLEAN : Serve(c, f)
    \/ \E c \in calls : loadJobsDone(c)
    \/ \E c \in calls : moveJobDone(c)
    \/ \E id \in DOMAIN store : onDragStart(id)
    \/ onDragEnd
    \/ \E i \in 1..Len(COLS) : onDrop(COLS[i])
    \/ \E i \in 1..MaxToasts : dismissToast(i)

\* the page opened on a table of one row
Init == InitOn(SeedStore)

Spec == Init /\ [][Next]_vars

\* the page opened on a table of two rows
InitBoard == InitOn(BoardStore)

SpecBoard == InitBoard /\ [][Next]_vars

\* the add form and the two dialogs, on a network that can fail
NextForms ==
    \/ Mount
    \/ TimerFires
    \/ \E c \in calls, f \in BOOLEAN : Serve(c, f)
    \/ \E c \in calls : loadJobsDone(c)
    \/ \E f \in AddForms : addJob(f[1], f[2])
    \/ \E id \in DOMAIN store : openEdit(id)
    \/ \E updated \in EditForms : saveEdit(updated)
    \/ \E id \in DOMAIN store : askDelete(id)
    \/ confirmDelete
    \/ closeDialog
    \/ \E c \in calls : mutationDone(c)
    \/ \E c \in calls : fetchThrows(c)

SpecForms == Init /\ [][NextForms]_vars

\* the query controls and the reloads they cause
NextQuery ==
    \/ Mount
    \/ TimerFires
    \/ \E text \in QTexts : setQ(text)
    \/ \E value \in FilterValues : setFilterStatus(value)
    \/ \E value \in SortValues : setSort(value)
    \/ \E c \in calls, f \in BOOLEAN : Serve(c, f)
    \/ \E c \in calls : loadJobsDone(c)

SpecQuery == InitBoard /\ [][NextQuery]_vars

\* the form and the dialogs while the filter is being changed
NextReload ==
    \/ Mount
    \/ TimerFires
    \/ \E value \in FilterValues : setFilterStatus(value)
    \/ \E c \in calls, f \in BOOLEAN : Serve(c, f)
    \/ \E c \in calls : loadJobsDone(c)
    \/ \E f \in AddForms : addJob(f[1], f[2])
    \/ \E id \in DOMAIN store : openEdit(id)
    \/ \E updated \in EditForms : saveEdit(updated)
    \/ \E id \in DOMAIN store : askDelete(id)
    \/ confirmDelete
    \/ closeDialog
    \/ \E c \in calls : mutationDone(c)

SpecReload == Init /\ [][NextReload]_vars

\* the columns that count in the interview rate
RateCols == {APPLIED, INTERVIEW}

\* the board opened on three rows, two of them applied, cards moved between
\* the columns of the rate
NextStats ==
    \/ Mount
    \/ \E c \in calls, f \in BOOLEAN : Serve(c, f)
    \/ \E c \in calls : loadJobsDone(c)
    \/ \E id \in DOMAIN store : onDragStart(id)
    \/ \E col \in RateCols : onDrop(col)
    \/ \E c \in calls : moveJobDone(c)

SpecStats == InitOn(ListStore) /\ [][NextStats]_vars

\* the columns cards are dropped on where the form and the dialogs are used
\* as well
DropCols == {SAVED, OFFER}

\* the form, the dialogs and the board together, every fetch answered
NextMoves ==
    \/ Mount
    \/ \E c \in calls, f \in BOOLEAN : Serve(c, f)
    \/ \E c \in calls : loadJobsDone(c)
    \/ \E f \in AddForms : addJob(f[1], f[2])
    \/ \E id \in DOMAIN store : openEdit(id)
    \/ \E updated \in EditForms : saveEdit(updated)
    \/ \E id \in DOMAIN store : askDelete(id)
    \/ confirmDelete
    \/ closeDialog
    \/ \E c \in calls : mutationDone(c)
    \/ \E id \in DOMAIN store : onDragStart(id)
    \/ \E col \in DropCols : onDrop(col)
    \/ \E c \in calls : moveJobDone(c)

SpecMoves == Init /\ [][NextMoves]_vars

\* the whole page on a network that can fail
NextPage ==
    \/ NextForms
    \/ \E id \in DOMAIN store : onDragStart(id)
    \/ \E i \in 1..Len(COLS) : onDrop(COLS[i])
    \/ \E c \in calls : moveJobDone(c)

SpecPage == Init /\ [][NextPage]_vars

\* --------------------------------------------------- the page: properties
\* C3: a drop puts the job in the new stage in the list at once, with the
\* PATCH only sent and the list before the drop kept as its snapshot; when
\* the answer is a failure the list becomes that snapshot and a failure
\* toast is pushed; when it is a success the list stays as it is and a
\* success toast is pushed.
C3_OptimisticMove ==
    [][/\ \A i \in 1..Len(COLS) :
            onDrop(COLS[i]) =>
                /\ \A k \in DOMAIN jobs' :
                     jobs'[k].id = dragId => jobs'[k].status = COLS[i]
                /\ \E c \in calls' \ calls :
                     /\ c.fn = "moveJob" /\ c.phase = "sent"
                     /\ c.id = dragId /\ c.status = COLS[i]
                     /\ c.prev = jobs
       /\ \A c \in calls :
            moveJobDone(c) =>
                IF c.ok
                THEN jobs' = jobs /\ Head(toasts') = Toast("success", "Updated")
                ELSE jobs' = c.prev /\ Head(toasts') = Toast("danger", "Failed")
      ]_vars

\* C3 witness: a move was refused, the list is back at a snapshot that does
\* not show the refused stage, and the failure toast is up.
C3_Witness ==
    /\ toasts # <<>>
    /\ Head(toasts) = Toast("danger", "Failed")
    /\ jobs # <<>>
    /\ \E r \in rejected : ~Shows(jobs, r[1], r[2])

\* the list never shows a job in a stage the service refused for it, until
\* a later move or reload puts it there
NeverShowsRejected == \A r \in rejected : ~Shows(jobs, r[1], r[2])

\* with no fetch in flight every listed job is in the stage the table has
AgreesWhenIdle ==
    calls = {} =>
        \A k \in DOMAIN jobs :
            jobs[k].id \in DOMAIN store =>
                jobs[k].status = store[jobs[k].id].status

\* the fetches a step sends
Issued == {n \in calls' : \A c \in calls : c.n # n.n}

\* C17: for Add, Edit and Delete the busy flag is set in the step that
\* sends the request and the list is left alone by it; the list changes only
\* when a reload is answered; the answer of the request issues a reload if
\* and only if it is a success, and an awaited reload is issued by nothing
\* but a successful answer.
C17_ConfirmThenReload ==
    [][/\ \A n \in Issued :
            n.fn \in Mutations => busy' /\ ~busy /\ jobs' = jobs
       /\ jobs' # jobs =>
            \E l \in calls \ calls' : l.fn = "loadJobs" /\ l.phase = "answered"
       /\ \A c \in calls :
            mutationDone(c) =>
                /\ jobs' = jobs
                /\ c.ok <=> \E l \in Issued : l.fn = "loadJobs"
       /\ \A l \in Issued :
            (l.fn = "loadJobs" /\ l.awaited) =>
                \E c \in calls \ calls' :
                    c.fn \in Mutations /\ c.phase = "answered" /\ c.ok
      ]_vars

\* C17 witness: a Delete has succeeded and its reload is in flight; the busy
\* flag is set and the list still shows the deleted job.
C17_Witness ==
    /\ busy
    /\ toasts # <<>> /\ Head(toasts) = Toast("success", "Deleted")
    /\ \E l \in calls : l.fn = "loadJobs" /\ l.awaited
    /\ \E k \in DOMAIN jobs : jobs[k].id \notin DOMAIN store

\* C18: a non-success answer to add, edit or delete pushes a failure toast,
\* leaves the list as it is, issues no reload and clears the busy flag; a
\* non-success answer to a stage move pushes a failure toast and sets the
\* list back to the move's snapshot.
C18_FailureLeavesConsistent ==
    [][\A c \in calls :
          /\ (mutationDone(c) /\ ~c.ok) =>
                /\ Head(toasts') = Toast("danger", "Failed")
                /\ jobs' = jobs
                /\ calls' = calls \ {c}
                /\ ~busy'
          /\ (moveJobDone(c) /\ ~c.ok) =>
                /\ Head(toasts') = Toast("danger", "Failed")
                /\ jobs' = c.prev
      ]_vars

\* C18 witness: a Save was refused: the failure toast is up, the busy flag
\* is clear, the edit dialog is still open, nothing is in flight and no move
\* has failed.
C18_Witness ==
    /\ toasts # <<>> /\ Head(toasts) = Toast("danger", "Failed")
    /\ ~busy
    /\ editJob # 0
    /\ calls = {}
    /\ rejected = {}
    /\ jobs # <<>>

\* C19 as stated: when a fetch fails at the network level a failure toast is
\* pushed, a stage move is rolled back to its snapshot and the busy flag is
\* not left set.
C19_NetworkFailureHandled ==
    [][\A c \in calls :
          fetchThrows(c) =>
              /\ toasts' # <<>>
              /\ Head(toasts') = Toast("danger", "Failed")
              /\ c.fn = "moveJob" => jobs' = c.prev
              /\ (c.fn \in Mutations \/ c.awaited) => ~busy'
      ]_vars

\* a change of a query control sets the timer and sends nothing; the timer
\* firing sends exactly one list request, with the parameters of the last
\* change, and leaves no timer pending; the first render sends one
Debounced ==
    /\ <<q, filterStatus, sort>>' # <<q, filterStatus, sort>> =>
          timer' /\ Issued = {}
    /\ TimerFires =>
          /\ Cardinality(Issued) = 1
          /\ \A l \in Issued : l.fn = "loadJobs" /\ l.params = loadParams
          /\ ~timer'
    /\ Mount => Cardinality(Issued) = 1

\* until a query control is changed no list request follows the first
StartupOnce == (Issued # {} /\ changes = 0) => callCount = 0

\* C20 as stated: a change to search, filter or sort starts the timer and
\* cancels the pending one, so that a burst of changes sends exactly one
\* list request, with the parameters of the last change; startup sends a
\* list request at once, and with no change to the controls it sends that
\* one only.
C20_DebouncedReload == [][Debounced /\ StartupOnce]_vars

\* the debounce by itself
DebouncedOnly == [][Debounced]_vars

\* C21: a reload leaves flight only by its answer arriving (a later reload or
\* a change of the controls cancels none), and every answer that arrives
\* overwrites the list, with its payload or on a non-success answer with the
\* empty list, whatever reloads were issued after it and whatever is still
\* in flight; so the list after all have arrived is that of the last arrival.
C21_LastResponseWins ==
    [][\A c \in calls :
          /\ (c.fn = "loadJobs" /\ \A d \in calls' : d.n # c.n) =>
                loadJobsDone(c)
          /\ loadJobsDone(c) =>
                jobs' = IF c.ok THEN c.jobs ELSE <<>>
      ]_vars

\* C21 witness: the filter was changed to OFFER while the startup reload was
\* in flight; both reloads have arrived, the one for OFFER (no rows) first,
\* and the list is the startup reload's two rows.
C21_Witness ==
    /\ changes = 1 /\ filterStatus = OFFER /\ ~timer
    /\ callCount = 2 /\ calls = {}
    /\ Len(jobs) = 2

\* the sum of f over the set S
RECURSIVE Sum(_, _)
Sum(f, S) ==
    IF S = {} THEN 0
    ELSE LET x == CHOOSE y \in S : TRUE IN f[x] + Sum(f, S \ {x})

Applied == {k \in DOMAIN jobs : jobs[k].status = APPLIED}
Interviews == {k \in DOMAIN jobs : jobs[k].status = INTERVIEW}

\* C23: in every state of the page the interview rate shown is 0 when the
\* list has no job in APPLIED, and otherwise the whole number nearest to
\* 100 * interviews / applied, a half going up; the counts per status are
\* those of the list and sum to its length.
C23_InterviewRate ==
    LET s == stats(jobs)
        a == Cardinality(Applied)
        i == Cardinality(Interviews)
        r == s.interviewRate
    IN  /\ a = 0 => r = 0
        /\ a > 0 => /\ 2 * a * r - a <= 200 * i
                    /\ 200 * i < 2 * a * r + a
        /\ s.counts[APPLIED] = a /\ s.counts[INTERVIEW] = i
        /\ Sum(s.counts, JobStatus) = Len(jobs)
        /\ s.total = Len(jobs)

\* C23 witness: two applied and one interview, the rate is 50, while one
\* move is pending and another has been rolled back.
C23_Witness ==
    /\ Cardinality(Applied) = 2 /\ Cardinality(Interviews) = 1
    /\ stats(jobs).interviewRate = 50
    /\ rejected # {}
    /\ \E c \in calls : c.fn = "moveJob" /\ c.phase = "sent"

\* C24 as stated: when the reload that a successful Add, Edit or Delete
\* waits for has been answered, with success or not, the list is a List
\* result of the table for the search, filter and sort that are set then.
C24_ReloadShowsServerState ==
    [][\A c \in calls :
          (loadJobsDone(c) /\ c.awaited) => jobs' \in GET(loadParams', store')
      ]_vars

\* the same of the reloads answered with success, the controls left as they
\* were when the handler started, and no other reload in flight
AwaitedReloadShowsTable ==
    [][\A c \in calls :
          (loadJobsDone(c) /\ c.awaited /\ c.ok /\ c.params = loadParams) =>
              jobs' \in GET(loadParams', store')
      ]_vars

\* the list shows the job in the stage the table has for it
ShowsStored(list, id) ==
    id \in DOMAIN store /\ Shows(list, id, store[id].status)

\* C25 as stated: when the failure of a move is processed, every other job
\* that was shown in the stage the table has for it, such as one whose own
\* overlapping move has succeeded, is still shown in that stage.
C25_RollbackKeepsOtherMoves ==
    [][\A c \in calls :
          (moveJobDone(c) /\ ~c.ok) =>
              \A id \in DOMAIN store \ {c.id} :
                  ShowsStored(jobs, id) => ShowsStored(jobs', id)
      ]_vars

\* the fetches whose answer ends with setBusy(false): the request of Add,
\* Edit or Delete, and the reload that a successful one waits for
ClearsBusy ==
    {c \in calls : c.fn \in Mutations \/ (c.fn = "loadJobs" /\ c.awaited)}

\* C26 as stated, by what it needs in every state: while the busy flag is set
\* a fetch whose answer will clear it is in flight. In a state where the flag
\* is set and no such fetch is left, no step of the page clears it any more.
C26_BusyEventuallyCleared == busy => ClearsBusy # {}

\* C28 as stated: while a reload is in flight the loading flag is set; the
\* answer of one reload does not clear it while another is still pending.
C28_LoadingWhileReloading ==
    (\E c \in calls : c.fn = "loadJobs") => loading

\* C4 as stated: once a move's failure has been processed the list never
\* again shows the job in the refused stage unless a later move or reload
\* puts it there, and whenever no fetch is in flight every listed job is in
\* the stage the table has for it.
C4_NeverShowsRejected == NeverShowsRejected /\ AgreesWhenIdle

\* ------------------------------------------------ the service: properties
Answered(op, c) == last.op = op /\ last.code = c

\* the value is empty after trimming, null included
BlankName(x) == x.t # "undefined" /\ trim(String(Coalesce(x, Str(<<>>)))) = <<>>

EmptyOrNull(x) == x = Null \/ x = Str(<<>>)

NullableFields == TextFields \cup {"nextActionAt"}

\* C1: in every state of the table every row has a company and a role that
\* are non-empty after trimming, whatever Create, Update and Delete requests
\* came before.
C1_NamesNeverEmpty ==
    \A id \in DOMAIN store :
        /\ trim(store[id].company) # <<>>
        /\ trim(store[id].role) # <<>>

\* C1 witness: an Update that carried a company and a role has succeeded.
C1_Witness ==
    /\ Answered("PATCH", 200)
    /\ last.body.company # Undefined
    /\ last.pre[last.id].company # store[last.id].company

\* C2 as stated: after a successful Update every field the payload omits is
\* as before, and every field it carries with an empty or null value is
\* cleared (for the status, which has no null: emptied or back at SAVED).
C2_Original ==
    Answered("PATCH", 200) =>
        LET old == last.pre[last.id]
            new == store[last.id]
        IN  /\ \A f \in BodyFields :
                 last.body[f] = Undefined => new[f] = old[f]
            /\ \A f \in NullableFields :
                 EmptyOrNull(last.body[f]) => new[f] = Null
            /\ EmptyOrNull(last.body.status) => new.status \in {<<>>, SAVED}

\* C2 amended: after a successful Update every field the payload omits is as
\* before, every nullable field (location, url, salary, notes, nextAction,
\* nextActionAt) it carries with an empty or null value is null, and a
\* status it carries with an empty or null value is as before.
C2_PartialUpdate ==
    Answered("PATCH", 200) =>
        LET old == last.pre[last.id]
            new == store[last.id]
        IN  /\ \A f \in BodyFields :
                 last.body[f] = Undefined => new[f] = old[f]
            /\ \A f \in NullableFields :
                 EmptyOrNull(last.body[f]) => new[f] = Null
            /\ EmptyOrNull(last.body.status) => new.status = old.status

\* C2 witness: a successful Update cleared a stored note and left the other
\* filled columns alone.
C2_Witness ==
    /\ Answered("PATCH", 200)
    /\ EmptyOrNull(last.body.notes)
    /\ last.pre[last.id].notes # Null
    /\ store[last.id].notes = Null
    /\ last.body.location = Undefined
    /\ store[last.id].location # Null

\* C22 as stated: in each of the four handlers a failure of the store is
\* caught by the handler itself and answered with 500, and the table is left
\* as it was.
C22_StoreFailureCaught ==
    (last.op # "none" /\ last.storeFails /\ last.code # 400) =>
        /\ last.code = 500
        /\ ~last.thrown
        /\ store = last.pre

\* the same of Create, Update and Delete only
WritesCatchStoreFailure ==
    last.op \in {"POST", "PATCH", "DELETE"} => C22_StoreFailureCaught

Written == Answered("POST", 201) \/ Answered("PATCH", 200)

\* C27 as stated: after a successful Create or Update every optional text
\* column of the record is null or a non-empty string with no whitespace
\* around it.
C27_OptionalTextNormalised ==
    Written =>
        \A f \in TextFields :
            \/ last.job[f] = Null
            \/ /\ last.job[f].t = "string"
               /\ last.job[f].s # <<>>
               /\ trim(last.job[f].s) = last.job[f].s

\* what does hold: the column is null or a string with no whitespace around
\* it, the empty string included
TextTrimmedOrNull ==
    Written =>
        \A f \in TextFields :
            \/ last.job[f] = Null
            \/ last.job[f].t = "string" /\ trim(last.job[f].s) = last.job[f].s

\* C5 as stated: an Update of an id the table does not hold is answered 404
\* and leaves the table as it was (read for a payload that passes validation
\* and a store that is up, so that neither 400 nor a store failure is due).
C5_UpdateNotFound ==
    (last.op = "PATCH" /\ last.id \notin DOMAIN last.pre
        /\ ~last.storeFails
        /\ ~BlankName(last.body.company) /\ ~BlankName(last.body.role)) =>
        /\ last.code = 404
        /\ store = last.pre

\* C6 as stated: a Delete of an id the table does not hold, a deleted one
\* included, is answered 404 and leaves the table as it was (read for a
\* store that is up, so that no store failure is due).
C6_DeleteNotFound ==
    (last.op = "DELETE" /\ last.id \notin DOMAIN last.pre
        /\ ~last.storeFails) =>
        /\ last.code = 404
        /\ store = last.pre

\* C7: a successful Delete removes its row and changes no other; a deleted
\* id is never in the table again, and no List returns a row with it.
C7_DeletedStaysDeleted ==
    /\ Answered("DELETE", 200) =>
          /\ last.id \in DOMAIN last.pre
          /\ store = [i \in DOMAIN last.pre \ {last.id} |-> last.pre[i]]
    /\ \A id \in deleted : id \notin DOMAIN store
    /\ last.op = "GET" =>
          \A k \in DOMAIN last.jobs : last.jobs[k].id \notin deleted

\* C7 witness: a List is answered after a Delete has succeeded.
C7_Witness ==
    /\ Answered("GET", 200)
    /\ deleted # {}

\* C8: an Update whose payload carries a company or a role that is empty
\* after trimming (null included) is answered 400 and changes nothing,
\* whatever else the payload carries.
C8_UpdateRejectsBlank ==
    (last.op = "PATCH"
        /\ (BlankName(last.body.company) \/ BlankName(last.body.role))) =>
        /\ last.code = 400
        /\ store = last.pre

\* C8 witness: the rejected payload named a stored row, carried a blank role
\* and a valid status, and the store was up.
C8_Witness ==
    /\ Answered("PATCH", 400)
    /\ last.id \in DOMAIN last.pre
    /\ BlankName(last.body.role)
    /\ last.body.status = Str(OFFER)
    /\ ~last.storeFails

NameGiven(x) == trim(String(Coalesce(x, Str(<<>>)))) # <<>>

OneAdded ==
    /\ last.job.id \notin DOMAIN last.pre
    /\ last.job.id \notin deleted
    /\ DOMAIN store = DOMAIN last.pre \cup {last.job.id}
    /\ store[last.job.id] = last.job
    /\ \A i \in DOMAIN last.pre : store[i] = last.pre[i]

CreateStoreError ==
    \/ last.storeFails
    \/ (Truthy(last.body.nextActionAt)
          /\ last.body.nextActionAt.s \notin ValidDateStrings)

IsEnumValue(x) == x.t = "string" /\ x.s \in JobStatus

Created ==
    /\ \A f \in NullableFields :
         last.body[f] = Undefined => last.job[f] = Null
    /\ last.job.createdAt = last.job.updatedAt

\* C10 as stated: a created row has status SAVED when the request's status
\* is absent or not one of the five values, the requested status otherwise,
\* null in every optional column not supplied, and createdAt = updatedAt.
C10_Original ==
    Answered("POST", 201) =>
        /\ last.job.status =
              IF IsEnumValue(last.body.status) THEN last.body.status.s
              ELSE SAVED
        /\ Created

\* C10 amended: a created row has the status that the request's status
\* spells once it is trimmed and upper-cased, if that is one of the five
\* values, and SAVED otherwise (absent included); null in every optional
\* column not supplied, and createdAt = updatedAt.
C10_CreateDefaults ==
    Answered("POST", 201) =>
        /\ last.job.status =
              IF toUpperCase(trim(last.body.status.s)) \in JobStatus
              THEN toUpperCase(trim(last.body.status.s))
              ELSE SAVED
        /\ Created

\* C10 witness: a Create without a status and without notes was answered
\* 201.
C10_Witness ==
    /\ Answered("POST", 201)
    /\ last.body.status = Undefined
    /\ last.body.notes = Undefined
    /\ last.job.status = SAVED

\* the status the payload spells: its text trimmed and upper-cased
Spelled(x) == toUpperCase(trim(String(Coalesce(x, Str(<<>>)))))

\* nothing but the status stands in the way of the Update: the row is there,
\* the store is up, no name is blank and nextActionAt, if given, is a date
UpdateDue ==
    /\ last.op = "PATCH"
    /\ last.id \in DOMAIN last.pre
    /\ ~last.storeFails
    /\ ~BlankName(last.body.company)
    /\ ~BlankName(last.body.role)
    /\ ~(Truthy(last.body.nextActionAt)
           /\ last.body.nextActionAt.s \notin ValidDateStrings)

\* the other fields of the payload are in the row
OthersApplied ==
    LET new == store[last.id]
    IN  /\ \A f \in {"company", "role"} :
             last.body[f] # Undefined => new[f] = trim(last.body[f].s)
        /\ \A f \in TextFields :
             last.body[f] # Undefined =>
                new[f] = IF Truthy(last.body[f])
                         THEN Str(trim(last.body[f].s)) ELSE Null

\* C11 as stated: every row's status is one of the five values, and an
\* Update whose status is not one of the five leaves the stored status as it
\* was, does not fail and applies the other fields of the payload.
C11_Original ==
    /\ \A id \in DOMAIN store : store[id].status \in JobStatus
    /\ (UpdateDue /\ last.body.status # Undefined
          /\ ~IsEnumValue(last.body.status)) =>
          /\ last.code = 200
          /\ store[last.id].status = last.pre[last.id].status
          /\ OthersApplied

\* C11 amended: every row's status is one of the five values, and an Update
\* whose status, trimmed and upper-cased, is not one of the five leaves the
\* stored status as it was, does not fail on that account and applies the
\* other fields of the payload.
C11_StatusAlwaysValid ==
    /\ \A id \in DOMAIN store : store[id].status \in JobStatus
    /\ (UpdateDue /\ last.body.status # Undefined
          /\ Spelled(last.body.status) \notin JobStatus) =>
          /\ last.code = 200
          /\ store[last.id].status = last.pre[last.id].status
          /\ OthersApplied

\* C11 witness: an Update with the status "X" and a note was answered 200
\* and the note is in the row.
C11_Witness ==
    /\ Answered("PATCH", 200)
    /\ last.body.status = Str(<<"X">>)
    /\ last.body.notes = Str(<<"y">>)
    /\ store[last.id].notes = Str(<<"y">>)
    /\ last.pre[last.id].notes # Str(<<"y">>)

\* C12: a successful Update advances the row's updatedAt and leaves its id
\* and createdAt as they were, also when the payload carries id, createdAt
\* or updatedAt; every row of every table has updatedAt >= createdAt.
C12_UpdateAdvancesUpdatedAt ==
    /\ Answered("PATCH", 200) =>
          LET old == last.pre[last.id]
              new == store[last.id]
          IN  /\ DOMAIN store = DOMAIN last.pre
              /\ new.id = old.id
              /\ new.createdAt = old.createdAt
              /\ new.updatedAt > old.updatedAt
    /\ \A id \in DOMAIN store :
          /\ store[id].id = id
          /\ store[id].updatedAt >= store[id].createdAt

\* C12 witness: an Update whose payload carried id, createdAt and updatedAt
\* was answered 200 and wrote its salary.
C12_Witness ==
    /\ Answered("PATCH", 200)
    /\ Field(last.body, "createdAt").t = "number"
    /\ Field(last.body, "id").t = "number"
    /\ store[last.id].salary = Str(<<"y">>)
    /\ store[last.id].updatedAt > store[last.id].createdAt

\* ------------------------------------------------- the List: properties
\* text n is in text h, letters compared without case
InText(h, n) ==
    \E i \in 1..(Len(h) - Len(n) + 1) :
        \A k \in 1..Len(n) : lowerChar(h[i + k - 1]) = lowerChar(n[k])

\* one of the four searched columns of the row has n in it
Found(row, n) ==
    \/ InText(row.company, n)
    \/ InText(row.role, n)
    \/ row.notes # Null /\ InText(row.notes.s, n)
    \/ row.nextAction # Null /\ InText(row.nextAction.s, n)

\* the rows of the answered list
Listed == {last.jobs[k] : k \in DOMAIN last.jobs}

Rows(st) == {st[i] : i \in DOMAIN st}

\* the search text of the request, "" when it has none
Query == IF last.params.q = Null THEN <<>> ELSE last.params.q.s

\* C13 as stated: a List whose status is one of the five values returns
\* exactly the rows of the table that have that status, whatever q is.
C13_Original ==
    (Answered("GET", 200) /\ IsEnumValue(last.params.status)) =>
        Listed = {r \in Rows(last.pre) : r.status = last.params.status.s}

\* C13 amended: a List whose status is one of the five values returns
\* exactly the rows that have that status and, when q trimmed is not empty,
\* have q trimmed in one of company, role, notes, nextAction; with q empty
\* or absent it returns exactly the rows that have that status.
C13_StatusFilter ==
    (Answered("GET", 200) /\ IsEnumValue(last.params.status)) =>
        /\ Listed = {r \in Rows(last.pre) :
                        /\ r.status = last.params.status.s
                        /\ trim(Query) # <<>> => Found(r, trim(Query))}
        /\ Len(last.jobs) = Cardinality(Listed)

\* C13 witness: a List with status APPLIED and no q returned two rows and
\* left a row of another status out.
C13_Witness ==
    /\ Answered("GET", 200)
    /\ last.params.status = Str(APPLIED)
    /\ last.params.q = Null
    /\ Len(last.jobs) = 2
    /\ \E r \in Rows(last.pre) : r.status = OFFER

\* the status the request filters by, <<>> when it names none of the five
StatusFilter ==
    IF Spelled(last.params.status) \in JobStatus
    THEN Spelled(last.params.status) ELSE <<>>

PassesStatus(r) == StatusFilter # <<>> => r.status = StatusFilter

\* C14 as stated: a List with a non-empty q returns a row if and only if one
\* of its company, role, notes, nextAction has q in it, letters compared
\* without case, and the row passes the status filter (read for a status
\* that is absent or one of the five values).
C14_Original ==
    (Answered("GET", 200) /\ Query # <<>>
        /\ (last.params.status = Null \/ IsEnumValue(last.params.status))) =>
        Listed = {r \in Rows(last.pre) : Found(r, Query) /\ PassesStatus(r)}

\* C14 amended: a List whose q, with the surrounding whitespace trimmed, is
\* not empty returns a row if and only if one of its company, role, notes,
\* nextAction has the trimmed q in it, letters compared without case, and
\* the row passes the status filter; a q of whitespace only filters nothing.
C14_TextSearch ==
    Answered("GET", 200) =>
        /\ Listed = {r \in Rows(last.pre) :
                        /\ trim(Query) # <<>> => Found(r, trim(Query))
                        /\ PassesStatus(r)}
        /\ Len(last.jobs) = Cardinality(Listed)

\* C14 witness: a List with q = "A" returned the rows with an a or A in
\* company or nextAction and left out a row with an a in its location only.
C14_Witness ==
    /\ Answered("GET", 200)
    /\ last.params.q = Str(<<"A">>)
    /\ \E r \in Listed : r.company = <<"a">>
    /\ \E r \in Listed : r.nextAction = Str(<<"A", "x">>)
    /\ \E r \in Rows(last.pre) : r.location = Str(<<"a">>) /\ r \notin Listed

SortKeys == {updated_desc, updated_asc, created_desc, created_asc,
             company_asc, company_desc}

\* the sort text of the request, "" when it has none
SortText == IF last.params.sort = Null THEN <<>> ELSE last.params.sort.s

\* the rows the text filter alone lets through
TextMatches ==
    {r \in Rows(last.pre) : trim(Query) # <<>> => Found(r, trim(Query))}

NewestUpdateFirst ==
    \A k, m \in DOMAIN last.jobs :
        k < m => last.jobs[k].updatedAt >= last.jobs[m].updatedAt

\* C15 as stated: a List whose status is not one of the five values returns
\* what the List without a status filter returns, and a List whose sort is
\* not one of the six keys returns its rows newest update first.
C15_Original ==
    Answered("GET", 200) =>
        /\ (last.params.status # Null /\ ~IsEnumValue(last.params.status)) =>
              Listed = TextMatches
        /\ (last.params.sort # Null /\ SortText \notin SortKeys) =>
              NewestUpdateFirst

\* C15 amended: a List whose status, trimmed and upper-cased, is not one of
\* the five values returns what the List without a status filter returns,
\* and a List whose sort, trimmed, is not one of the six keys returns its
\* rows newest update first.
C15_InvalidFallBack ==
    Answered("GET", 200) =>
        /\ Spelled(last.params.status) \notin JobStatus =>
              /\ Listed = TextMatches
              /\ Len(last.jobs) = Cardinality(Listed)
        /\ trim(SortText) \notin SortKeys => NewestUpdateFirst

\* C15 witness: a List with status "X" and sort "X" returned three rows,
\* the one updated last first although it was created first.
C15_Witness ==
    /\ Answered("GET", 200)
    /\ last.params.status = Str(<<"X">>)
    /\ last.params.sort = Str(<<"X">>)
    /\ Len(last.jobs) = 3
    /\ last.jobs[1].createdAt < last.jobs[2].createdAt
    /\ last.jobs[1].updatedAt > last.jobs[2].updatedAt

\* the key the request sorts by
SortKey == IF trim(SortText) \in SortKeys THEN trim(SortText) ELSE updated_desc

\* rows a, b stand in the order of the key
InOrder(key, a, b) ==
    IF key = updated_desc THEN a.updatedAt >= b.updatedAt
    ELSE IF key = updated_asc THEN a.updatedAt <= b.updatedAt
    ELSE IF key = created_desc THEN a.createdAt >= b.createdAt
    ELSE IF key = created_asc THEN a.createdAt <= b.createdAt
    ELSE IF key = company_asc THEN textLeq(a.company, b.company)
    ELSE textLeq(b.company, a.company)

\* C16: a List returns every matching row, each once, in the order of the
\* selected key and direction, and leaves the table as it was.
C16_ListComplete ==
    last.op = "GET" =>
        /\ store = last.pre
        /\ last.code = 200 =>
              /\ Listed = {r \in TextMatches : PassesStatus(r)}
              /\ Len(last.jobs) = Cardinality(Listed)
              /\ \A k, m \in DOMAIN last.jobs :
                    k < m => InOrder(SortKey, last.jobs[k], last.jobs[m])

\* C16 witness: a List sorted by company descending returned the three rows
\* of the table, "b" before "a" before "B".
C16_Witness ==
    /\ Answered("GET", 200)
    /\ last.params.sort = Str(company_desc)
    /\ Len(last.jobs) = 3
    /\ last.jobs[1].company = <<"b">>
    /\ last.jobs[2].company = <<"a">>
    /\ last.jobs[3].company = <<"B">>

====
